---------------------------- MODULE Spec2Model ----------------------------
(***************************************************************************)
(* Model of app.py: a Streamlit dashboard over adult.csv.                  *)
(*                                                                         *)
(* One render pass is one execution of the script from top to bottom:      *)
(*   load_data() (behind st.cache_data) -> z-axis selectbox ->             *)
(*   range filter -> education filter -> income filter ->                  *)
(*   chart or warning -> data overview.                                    *)
(* The process-wide state is the st.cache_data entry; everything else is   *)
(* local to the pass and is rebuilt by the next rerun.                     *)
(*                                                                         *)
(* Text is modelled as a sequence of one-character strings, so that        *)
(* str.strip(), the comparison with '>50K', the comparison with '?' and    *)
(* the integer parse of read_csv are computed, not assumed.                *)
(***************************************************************************)
EXTENDS Integers, Sequences, FiniteSets, TLC

(***************************************************************************)
(* Bounds of the model.                                                    *)
(***************************************************************************)
\* The largest number of records of a modelled adult.csv.
MaxRows == 2

\* The largest size of a numeral of a modelled adult.csv: its digits plus
\* its exponent.  Numbers are held as exact decimals; up to this size (and
\* well beyond it) float64 and int64 give the same int() and the same
\* comparisons with the integers of the slider as the exact decimal.
MaxDigits == 3

(***************************************************************************)
(* Text literals of the program and of the data set.                       *)
(***************************************************************************)
\* '>50K', the literal of line 20.
GT50K == <<">", "5", "0", "K">>

\* '?', the literal of line 16.
SENTINEL == <<"?">>

\* '<=50K', the other bracket label (comments of lines 19, 48).
LE50K == <<"<", "=", "5", "0", "K">>

\* The characters str.strip() removes (line 20): those for which
\* str.isspace() holds.  A character with no TLA+ escape is written by its
\* code point and stands for that one character.
Whitespace ==
    {"\t", "\n", "U+000B", "\f", "\r", "U+001C", "U+001D", "U+001E", "U+001F",
     " ", "U+0085", "U+00A0", "U+1680", "U+2000", "U+2001", "U+2002",
     "U+2003", "U+2004", "U+2005", "U+2006", "U+2007", "U+2008", "U+2009",
     "U+200A", "U+2028", "U+2029", "U+202F", "U+205F", "U+3000"}

\* The characters the numeric conversions of read_csv skip around a number
\* (C isspace).
AsciiSpace == {" ", "\t", "\n", "U+000B", "\f", "\r"}

(***************************************************************************)
(* Cells of a DataFrame.  k is the kind of the Python object in the cell:  *)
(*   "str"  a str (its text in s),                                         *)
(*   "num"  a number, the fraction n / d with d a power of ten, in lowest  *)
(*          such terms (int64 and float64 cells alike),                    *)
(*   "bool" True (n = 1) or False (n = 0),                                 *)
(*   "inf"  the float inf (n = 1) or -inf (n = -1),                        *)
(*   "nan"  the float NaN read_csv puts in a missing field,                *)
(*   "NA"   pd.NA, put there by df.replace('?', pd.NA).                    *)
(***************************************************************************)
Str(t) == [k |-> "str", n |-> 0, d |-> 1, s |-> t]

Num(i) == [k |-> "num", n |-> i, d |-> 1, s |-> <<>>]

RECURSIVE Frac(_, _)
Frac(i, j) ==
    IF j > 1 /\ i % 10 = 0 THEN Frac(i \div 10, j \div 10)
    ELSE [k |-> "num", n |-> i, d |-> j, s |-> <<>>]

Bool(b) == [k |-> "bool", n |-> IF b THEN 1 ELSE 0, d |-> 1, s |-> <<>>]

Inf(sign) == [k |-> "inf", n |-> sign, d |-> 1, s |-> <<>>]

NaN == [k |-> "nan", n |-> 0, d |-> 1, s |-> <<>>]

NA == [k |-> "NA", n |-> 0, d |-> 1, s |-> <<>>]

(***************************************************************************)
(* str.strip() of line 20: drop leading and trailing whitespace.           *)
(***************************************************************************)
RECURSIVE ltrim(_, _)
ltrim(t, S) == IF t # <<>> /\ Head(t) \in S THEN ltrim(Tail(t), S) ELSE t

RECURSIVE rtrim(_, _)
rtrim(t, S) ==
    IF t # <<>> /\ t[Len(t)] \in S
    THEN rtrim(SubSeq(t, 1, Len(t) - 1), S)
    ELSE t

strip(t) == rtrim(ltrim(t, Whitespace), Whitespace)

(***************************************************************************)
(* pd.read_csv("adult.csv"), line 13, with its default arguments.  A field *)
(* of the file is text.                                                    *)
(*   - A field that is one of the default NA tokens is read as NaN.        *)
(*   - A column all of whose other fields are numerals (optional sign,     *)
(*     digits with an optional decimal point, optional exponent, ASCII     *)
(*     whitespace around it skipped; or exactly an infinity word, in any   *)
(*     case) is a numeric column; its cells are the numbers.               *)
(*   - A column all of whose other fields are 'true' or 'false', in any    *)
(*     case, holds bools.                                                  *)
(*   - Any other column is an object column whose fields stay str.         *)
(* Numbers are exact decimals; the files of the model hold numerals of     *)
(* size MaxDigits at most, on which float64 rounds nothing that lines      *)
(* 65-70 can see.                                                          *)
(***************************************************************************)
\* The default NA tokens of read_csv (keep_default_na=True).
NaValues ==
    { <<>>,
      <<"#", "N", "/", "A">>,
      <<"#", "N", "/", "A", " ", "N", "/", "A">>,
      <<"#", "N", "A">>,
      <<"-", "1", ".", "#", "I", "N", "D">>,
      <<"-", "1", ".", "#", "Q", "N", "A", "N">>,
      <<"-", "N", "a", "N">>,
      <<"-", "n", "a", "n">>,
      <<"1", ".", "#", "I", "N", "D">>,
      <<"1", ".", "#", "Q", "N", "A", "N">>,
      <<"<", "N", "A", ">">>,
      <<"N", "/", "A">>,
      <<"N", "A">>,
      <<"N", "U", "L", "L">>,
      <<"N", "a", "N">>,
      <<"N", "o", "n", "e">>,
      <<"n", "/", "a">>,
      <<"n", "a", "n">>,
      <<"n", "u", "l", "l">> }

Digits == {"0", "1", "2", "3", "4", "5", "6", "7", "8", "9"}

DigitVal(c) ==
    CASE c = "0" -> 0 [] c = "1" -> 1 [] c = "2" -> 2 [] c = "3" -> 3
      [] c = "4" -> 4 [] c = "5" -> 5 [] c = "6" -> 6 [] c = "7" -> 7
      [] c = "8" -> 8 [] c = "9" -> 9

RECURSIVE ParseInt(_)
ParseInt(t) ==
    IF t = <<>> THEN 0
    ELSE 10 * ParseInt(SubSeq(t, 1, Len(t) - 1)) + DigitVal(t[Len(t)])

Negative(t) == t # <<>> /\ t[1] = "-"

Unsigned(t) == IF t # <<>> /\ t[1] \in {"+", "-"} THEN Tail(t) ELSE t

RECURSIVE Pow10(_)
Pow10(e) == IF e <= 0 THEN 1 ELSE 10 * Pow10(e - 1)

\* strcasecmp of the C parser: letters compare without case.
Lower(c) ==
    CASE c = "A" -> "a" [] c = "B" -> "b" [] c = "C" -> "c" [] c = "D" -> "d"
      [] c = "E" -> "e" [] c = "F" -> "f" [] c = "G" -> "g" [] c = "H" -> "h"
      [] c = "I" -> "i" [] c = "J" -> "j" [] c = "K" -> "k" [] c = "L" -> "l"
      [] c = "M" -> "m" [] c = "N" -> "n" [] c = "O" -> "o" [] c = "P" -> "p"
      [] c = "Q" -> "q" [] c = "R" -> "r" [] c = "S" -> "s" [] c = "T" -> "t"
      [] c = "U" -> "u" [] c = "V" -> "v" [] c = "W" -> "w" [] c = "X" -> "x"
      [] c = "Y" -> "y" [] c = "Z" -> "z" [] OTHER -> c

LowerCase(t) == [i \in 1..Len(t) |-> Lower(t[i])]

\* The whole field is an infinity word, with or without a sign.
IsInfWord(t) ==
    LowerCase(Unsigned(t)) \in {<<"i", "n", "f">>, <<"i", "n", "f", "i", "n", "i", "t", "y">>}

\* The whole field is the word true / false (to_boolean of the C parser).
IsTrueWord(t) == LowerCase(t) = <<"t", "r", "u", "e">>

IsFalseWord(t) == LowerCase(t) = <<"f", "a", "l", "s", "e">>

\* One step of the numeric conversion's scan of a field: r is the text
\* left, ph the part of the numeral the scan is in, acc what it has read.
RECURSIVE ScanNumeral(_, _, _)
ScanNumeral(r, ph, acc) ==
    IF r = <<>>
    THEN [acc EXCEPT !.valid = Len(acc.mant) >= 1 /\ ph \in {"int", "frac", "exp"}]
    ELSE CASE ph = "int" /\ Head(r) \in Digits ->
                ScanNumeral(Tail(r), "int", [acc EXCEPT !.mant = Append(@, Head(r))])
           [] ph = "int" /\ Head(r) = "." ->
                ScanNumeral(Tail(r), "frac", acc)
           [] ph = "frac" /\ Head(r) \in Digits ->
                ScanNumeral(Tail(r), "frac",
                            [acc EXCEPT !.mant = Append(@, Head(r)), !.f = @ + 1])
           [] ph \in {"int", "frac"} /\ Head(r) \in {"e", "E"} ->
                ScanNumeral(Tail(r), "exp_sign", acc)
           [] ph = "exp_sign" /\ Head(r) \in {"+", "-"} ->
                ScanNumeral(Tail(r), "exp_first", [acc EXCEPT !.expNeg = Head(r) = "-"])
           [] ph \in {"exp_sign", "exp_first", "exp"} /\ Head(r) \in Digits ->
                ScanNumeral(Tail(r), "exp", [acc EXCEPT !.expo = Append(@, Head(r))])
           [] OTHER -> acc

\* The numeral t taken apart: whether it is one, the digits of its
\* mantissa, the number f of those after the point, and its exponent.
Numeral(t) ==
    ScanNumeral(Unsigned(t), "int",
                [valid |-> FALSE, neg |-> Negative(t), mant |-> <<>>, f |-> 0,
                 expNeg |-> FALSE, expo |-> <<>>])

\* The value of the numeral t as the cell Frac(n, d).
NumeralValue(t) ==
    LET p      == Numeral(t)
        m      == ParseInt(p.mant)
        signed == IF p.neg THEN 0 - m ELSE m
        e      == ParseInt(p.expo)
        scale  == (IF p.expNeg THEN 0 - e ELSE e) - p.f
    IN  IF scale >= 0 THEN Frac(signed * Pow10(scale), 1)
        ELSE Frac(signed, Pow10(0 - scale))

\* The text of a field that the numeric conversion looks at.
NumberText(t) == rtrim(ltrim(t, AsciiSpace), AsciiSpace)

\* TRUE iff read_csv converts the field t to a number.
IsNumeral(t) == IsInfWord(t) \/ Numeral(NumberText(t)).valid

ParseNumber(t) ==
    IF IsInfWord(t) THEN Inf(IF Negative(t) THEN -1 ELSE 1)
    ELSE NumeralValue(NumberText(t))

\* int(x) of a str x, lines 67-68: whitespace around it dropped, an
\* optional sign, then decimal digits with single underscores allowed
\* between them.  Digits other than 0-9 are outside the model's alphabet.
\* The whitespace int() drops is that of str.strip() without the four
\* separators U+001C..U+001F: int('\x1c9') is a ValueError.
IntSpace == Whitespace \ {"U+001C", "U+001D", "U+001E", "U+001F"}

IsDigit(c) == c \in Digits

IntTrimmed(t) == rtrim(ltrim(t, IntSpace), IntSpace)

IntBody(t) == Unsigned(IntTrimmed(t))

IsIntText(t) ==
    /\ IntBody(t) # <<>>
    /\ \A i \in 1..Len(IntBody(t)) : IntBody(t)[i] \in Digits \cup {"_"}
    /\ IntBody(t)[1] # "_"
    /\ IntBody(t)[Len(IntBody(t))] # "_"
    /\ \A i \in 1..(Len(IntBody(t)) - 1) :
          ~(IntBody(t)[i] = "_" /\ IntBody(t)[i + 1] = "_")

int_text(t) ==
    IF Negative(IntTrimmed(t)) THEN 0 - ParseInt(SelectSeq(IntBody(t), IsDigit))
    ELSE ParseInt(SelectSeq(IntBody(t), IsDigit))

\* TRUE iff the number in field t, if there is one, has size MaxDigits at most.
WithinDigits(t) ==
    LET p == Numeral(NumberText(t))
    IN  /\ (t \notin NaValues /\ ~IsInfWord(t) /\ p.valid) =>
              /\ Len(p.expo) <= 1
              /\ Len(p.mant) + ParseInt(p.expo) <= MaxDigits
        /\ IsIntText(t) => Len(SelectSeq(IntBody(t), IsDigit)) <= MaxDigits

\* The columns of adult.csv the model carries.  education_num is the
\* column 'education.num'; sex stands for the seven categorical columns
\* of z_axis_options, which the program treats alike.
Columns == {"education_num", "education", "income", "sex"}

\* TRUE iff read_csv infers a numeric dtype for column c of the raw rows.
NumericColumn(rows, c) ==
    /\ \A i \in 1..Len(rows) : rows[i][c] \in NaValues \/ IsNumeral(rows[i][c])
    /\ \E i \in 1..Len(rows) : rows[i][c] \notin NaValues

\* TRUE iff read_csv reads column c of the raw rows as booleans.
BoolColumn(rows, c) ==
    /\ \A i \in 1..Len(rows) :
          \/ rows[i][c] \in NaValues
          \/ IsTrueWord(rows[i][c])
          \/ IsFalseWord(rows[i][c])
    /\ \E i \in 1..Len(rows) : rows[i][c] \notin NaValues

ParseField(rows, c, t) ==
    IF t \in NaValues THEN NaN
    ELSE IF NumericColumn(rows, c) THEN ParseNumber(t)
    ELSE IF BoolColumn(rows, c) THEN Bool(IsTrueWord(t))
    ELSE Str(t)

read_csv(rows) ==
    [i \in 1..Len(rows) |-> [c \in Columns |-> ParseField(rows, c, rows[i][c])]]

(***************************************************************************)
(* df.replace('?', pd.NA, inplace=True), line 16: every cell of every      *)
(* column that equals the str '?' becomes pd.NA.                           *)
(***************************************************************************)
\* replace_cell with the replacement forgotten.
replace_cell_kept(c) == c

replace_cell(c) == IF c = Str(SENTINEL) THEN NA ELSE c

replace(t) == [i \in 1..Len(t) |-> [c \in DOMAIN t[i] |-> replace_cell(t[i][c])]]

(***************************************************************************)
(* lambda x: 1 if x.strip() == '>50K' else 0, line 20.  It is applied to   *)
(* str cells only: on NaN or pd.NA, x.strip raises AttributeError.         *)
(***************************************************************************)
\* income_numeric with the strip() forgotten.
income_numeric_unstripped(x) == IF x.s = GT50K THEN 1 ELSE 0

income_numeric(x) == IF strip(x.s) = GT50K THEN 1 ELSE 0

\* TRUE iff df['income'].apply(...) raises (some cell is no str).
apply_raises(t) == \E i \in 1..Len(t) : t[i].income.k # "str"

with_income_numeric(t) ==
    [i \in 1..Len(t) |->
        [c \in DOMAIN t[i] \cup {"income_numeric"} |->
            IF c = "income_numeric" THEN Num(income_numeric(t[i].income))
            ELSE t[i][c]]]

(***************************************************************************)
(* load_data(), lines 9-28.  The resource is absent (FileNotFoundError),   *)
(* unparsable (read_csv raises another exception) or a CSV with rows.      *)
(* The result: ok and the table, or the st.error notice and stop = TRUE    *)
(* for st.stop().                                                          *)
(***************************************************************************)
Loaded(t) == [ok |-> TRUE, table |-> t, notice |-> "none", stop |-> FALSE]

\* Failed with the st.stop() forgotten: load_data() returns None.
FailedNoStop(msg) == [ok |-> FALSE, table |-> <<>>, notice |-> msg, stop |-> FALSE]

Failed(msg) == [ok |-> FALSE, table |-> <<>>, notice |-> msg, stop |-> TRUE]

load_data(res) ==
    IF res.kind = "absent" THEN Failed("file_not_found")
    ELSE IF res.kind = "unparsable" THEN Failed("load_error")
    ELSE LET t == replace(read_csv(res.rows))
         IN  IF apply_raises(t) THEN Failed("load_error")
             ELSE Loaded(with_income_numeric(t))


(***************************************************************************)
(* The resource adult.csv.  SourceRows are representative lines of the     *)
(* file: the two bracket labels, a label with surrounding whitespace, an   *)
(* unknown label, fractional education.num values, an education.num that   *)
(* read_csv leaves as text and int() accepts ('1_1'), and fields that are  *)
(* empty, hold an NA token, hold the sentinel '?' or hold ' ?', which is   *)
(* not the sentinel.                                                       *)
(***************************************************************************)
HS_GRAD == <<"H", "S", "-", "g", "r", "a", "d">>

SOME_COLLEGE == <<"S", "o", "m", "e", "-", "c", "o", "l", "l", "e", "g", "e">>

MALE == <<"M", "a", "l", "e">>

FEMALE == <<"F", "e", "m", "a", "l", "e">>

Line(n, e, i, x) == [education_num |-> n, education |-> e, income |-> i, sex |-> x]

SourceRows ==
    { Line(<<"9">>, HS_GRAD, LE50K, MALE),
      Line(<<"1", "0">>, SOME_COLLEGE, GT50K, FEMALE),
      Line(<<"1", "0", ".", "5">>, SOME_COLLEGE, <<" ">> \o GT50K \o <<"U+00A0">>, <<" ">> \o SENTINEL),
      Line(<<>>, HS_GRAD, LE50K, SENTINEL),
      Line(<<"9", ".", "5">>, SENTINEL, GT50K \o <<".">>, FEMALE),
      Line(<<"9">>, HS_GRAD, SENTINEL, MALE),
      Line(<<"1", "0">>, SOME_COLLEGE, <<"N", "A">>, FEMALE),
      Line(SENTINEL, HS_GRAD, LE50K, FEMALE),
      Line(<<"1", "_", "1">>, SOME_COLLEGE, GT50K, MALE) }

RECURSIVE SeqsUpTo(_, _)
SeqsUpTo(S, n) ==
    IF n = 0 THEN {<<>>}
    ELSE LET shorter == SeqsUpTo(S, n - 1)
         IN  shorter \cup {Append(q, x) : q \in shorter, x \in S}

Csv(rows) == [kind |-> "csv", rows |-> rows]

Absent == [kind |-> "absent", rows |-> <<>>]

Unparsable == [kind |-> "unparsable", rows |-> <<>>]

\* Every state of adult.csv the process may start with.
ModelledRows == {r \in SourceRows : \A c \in Columns : WithinDigits(r[c])}

Resources == {Absent, Unparsable} \cup {Csv(rows) : rows \in SeqsUpTo(ModelledRows, MaxRows)}

\* What an edit of adult.csv between two render passes may leave behind.
Revisions ==
    { Absent, Unparsable,
      Csv(<<Line(<<"1", "0">>, SOME_COLLEGE, GT50K, FEMALE)>>),
      Csv(<<Line(<<"9">>, HS_GRAD, SENTINEL, MALE)>>) }

(***************************************************************************)
(* st.cache_data, line 8.  The entry is empty until a call of load_data()  *)
(* returns; a call that raises (st.stop() included) stores nothing.        *)
(***************************************************************************)
EmptyCache == [set |-> FALSE, table |-> <<>>]

\* The call load_data() of line 30 through the cache: a hit returns the
\* stored table and does not run the function body.
\* cached_call with the decorator forgotten: every call runs the body.
cached_call_uncached(c, res) == [hit |-> FALSE, out |-> load_data(res)]

cached_call(c, res) ==
    IF c.set THEN [hit |-> TRUE, out |-> Loaded(c.table)]
    ELSE [hit |-> FALSE, out |-> load_data(res)]

\* The cache entry after that call.
cache_after(c, call) ==
    IF ~call.hit /\ call.out.ok THEN [set |-> TRUE, table |-> call.out.table]
    ELSE c

(***************************************************************************)
(* The widgets and the filters, lines 52-88.                               *)
(***************************************************************************)
z_axis_options ==
    {"race", "sex", "marital.status", "workclass",
     "occupation", "relationship", "native.country"}

\* df[col].unique().tolist(), lines 74 and 85.
unique(t, col) == {t[i][col] : i \in 1..Len(t)}

\* The cells of df['education.num'] that min() and max() see: the numbers
\* and the bools (False is 0, True is 1); NaN is skipped.
edu_values(t) ==
    {t[i].education_num : i \in {j \in 1..Len(t) : t[j].education_num.k \in {"num", "bool"}}}

\* x <= y for two such cells.
Leq(x, y) == x.n * y.d <= y.n * x.d

SetMin(S) == CHOOSE x \in S : \A y \in S : Leq(x, y)

SetMax(S) == CHOOSE x \in S : \A y \in S : Leq(y, x)

\* int(x), lines 67-68: truncation toward zero.
int(x) == IF x.n >= 0 THEN x.n \div x.d ELSE 0 - ((0 - x.n) \div x.d)

\* Python's order of str, which min() and max() of a column of str use:
\* by code point, a proper prefix first.  CodePoint covers the printable
\* ASCII characters and the whitespace characters of the model's text.
Ascii ==
    <<" ", "!", "\"", "#", "$", "%", "&", "'", "(", ")", "*", "+", ",", "-", ".", "/",
      "0", "1", "2", "3", "4", "5", "6", "7", "8", "9", ":", ";", "<", "=", ">", "?",
      "@", "A", "B", "C", "D", "E", "F", "G", "H", "I", "J", "K", "L", "M", "N", "O",
      "P", "Q", "R", "S", "T", "U", "V", "W", "X", "Y", "Z", "[", "\\", "]", "^", "_",
      "U+0060", "a", "b", "c", "d", "e", "f", "g", "h", "i", "j", "k", "l", "m", "n", "o",
      "p", "q", "r", "s", "t", "u", "v", "w", "x", "y", "z", "{", "|", "}", "~">>

CodePoint(c) ==
    CASE c = "\t" -> 9 [] c = "\n" -> 10 [] c = "U+000B" -> 11 [] c = "\f" -> 12
      [] c = "\r" -> 13 [] c = "U+001C" -> 28 [] c = "U+001D" -> 29
      [] c = "U+001E" -> 30 [] c = "U+001F" -> 31 [] c = "U+0085" -> 133
      [] c = "U+00A0" -> 160 [] c = "U+1680" -> 5760 [] c = "U+2000" -> 8192
      [] c = "U+2001" -> 8193 [] c = "U+2002" -> 8194 [] c = "U+2003" -> 8195
      [] c = "U+2004" -> 8196 [] c = "U+2005" -> 8197 [] c = "U+2006" -> 8198
      [] c = "U+2007" -> 8199 [] c = "U+2008" -> 8200 [] c = "U+2009" -> 8201
      [] c = "U+200A" -> 8202 [] c = "U+2028" -> 8232 [] c = "U+2029" -> 8233
      [] c = "U+202F" -> 8239 [] c = "U+205F" -> 8287 [] c = "U+3000" -> 12288
      [] OTHER -> 31 + (CHOOSE i \in 1..Len(Ascii) : Ascii[i] = c)

RECURSIVE TextLeq(_, _)
TextLeq(x, y) ==
    IF x = <<>> THEN TRUE
    ELSE IF y = <<>> THEN FALSE
    ELSE IF Head(x) = Head(y) THEN TextLeq(Tail(x), Tail(y))
    ELSE CodePoint(Head(x)) < CodePoint(Head(y))

TextMin(S) == CHOOSE x \in S : \A y \in S : TextLeq(x, y)

TextMax(S) == CHOOSE x \in S : \A y \in S : TextLeq(y, x)

\* TRUE iff df['education.num'] is an object column holding text: a field
\* that is no numeral (the '?' of line 16 included) left its cells as str.
IsTextColumn(t) == \E i \in 1..Len(t) : t[i].education_num.k \in {"str", "NA"}

\* The str cells of such a column.
edu_texts(t) ==
    {t[i].education_num.s : i \in {j \in 1..Len(t) : t[j].education_num.k = "str"}}

\* TRUE iff an argument of st.slider raises, lines 67-68, so that the
\* slider is never called:
\*   - the column holds an infinity: int(inf) is an OverflowError;
\*   - a text column holds NaN or pd.NA: min() over str and the float that
\*     stands in for the missing cells is a TypeError, and with no str at
\*     all min() is NaN and int(NaN) a ValueError;
\*   - a text column whose least or greatest str int() does not accept:
\*     ValueError;
\*   - a column with no number at all: int(NaN) is a ValueError.
slider_args_raise(t) ==
    IF \E i \in 1..Len(t) : t[i].education_num.k = "inf" THEN TRUE
    ELSE IF ~IsTextColumn(t) THEN edu_values(t) = {}
    ELSE IF \E i \in 1..Len(t) : t[i].education_num.k # "str" THEN TRUE
    ELSE ~(IsIntText(TextMin(edu_texts(t))) /\ IsIntText(TextMax(edu_texts(t))))

\* The bounds and the default value of the slider, lines 67-68.
slider_min(t) ==
    IF IsTextColumn(t) THEN int_text(TextMin(edu_texts(t)))
    ELSE int(SetMin(edu_values(t)))

slider_max(t) ==
    IF IsTextColumn(t) THEN int_text(TextMax(edu_texts(t)))
    ELSE int(SetMax(edu_values(t)))

\* st.slider(label, lo, hi, (lo, hi)), lines 65-69.  With lo < hi it
\* returns a range within the bounds.  With lo = hi, or with lo > hi (the
\* least str of a text column need not hold the least integer), what it
\* does depends on the Streamlit release: it raises, or it returns a range
\* within the two bounds.
slider_may_raise(lo, hi) == lo >= hi

slider_ranges(lo, hi) ==
    LET low  == IF lo <= hi THEN lo ELSE hi
        high == IF lo <= hi THEN hi ELSE lo
    IN  {v \in (low..high) \X (low..high) : v[1] <= v[2]}

\* TRUE iff the comparison of line 70 raises: str >= int is a TypeError.
compare_raises(t) == IsTextColumn(t)

\* in_range with the upper bound exclusive.
in_range_exclusive(c, lo, hi) ==
    c.k \in {"num", "bool"} /\ c.n >= lo * c.d /\ c.n < hi * c.d

\* (series >= lo) & (series <= hi), line 70: NaN compares False.
in_range(c, lo, hi) ==
    c.k \in {"num", "bool"} /\ c.n >= lo * c.d /\ c.n <= hi * c.d

range_filter(t, lo, hi) ==
    LET keep(r) == in_range(r.education_num, lo, hi) IN SelectSeq(t, keep)

\* t[t[col].isin(selected)], lines 80 and 88.
isin_filter(t, col, selected) ==
    LET keep(r) == r[col] \in selected IN SelectSeq(t, keep)

\* df_filtered.head(), line 119: the first five rows.
HeadRows == 5

head(t) == SubSeq(t, 1, IF Len(t) < HeadRows THEN Len(t) ELSE HeadRows)

NoChart == [shown |-> FALSE, data |-> <<>>, z |-> "none"]

NoOverview == [shown |-> FALSE, head |-> <<>>, count |-> 0]

(***************************************************************************)
(* State.                                                                  *)
(***************************************************************************)
VARIABLES
    resource,               \* adult.csv on disk
    cache,                  \* the st.cache_data entry of load_data
    pc,                     \* where the current render pass stands
    df,                     \* line 30
    did_read,               \* this pass ran read_csv
    failed_before,          \* an earlier pass of the process ended in st.stop()
    notice,                 \* st.error shown by this pass
    z_axis_col,             \* line 56
    min_edu, max_edu,       \* line 65
    selected_education,     \* line 75
    selected_income_types,  \* line 83
    df_filtered,            \* lines 62, 70, 80, 88
    chart,                  \* st.plotly_chart, line 112
    warning,                \* st.warning, line 114
    overview,               \* st.dataframe, lines 119-120
    done                    \* the steps this pass has executed

vars == <<resource, cache, pc, df, did_read, failed_before, notice, z_axis_col,
          min_edu, max_edu, selected_education, selected_income_types,
          df_filtered, chart, warning, overview, done>>

\* The variables of one render pass before the pass has run.
FreshPass ==
    /\ pc = "idle"
    /\ df = <<>>
    /\ did_read = FALSE
    /\ notice = "none"
    /\ z_axis_col = "none"
    /\ min_edu = 0
    /\ max_edu = 0
    /\ selected_education = {}
    /\ selected_income_types = {}
    /\ df_filtered = <<>>
    /\ chart = NoChart
    /\ warning = FALSE
    /\ overview = NoOverview
    /\ done = {}

Init ==
    /\ resource \in Resources
    /\ cache = EmptyCache
    /\ failed_before = FALSE
    /\ FreshPass

widgets == <<z_axis_col, min_edu, max_edu, selected_education, selected_income_types>>

outputs == <<chart, warning, overview>>

process == <<resource, cache, failed_before>>

(***************************************************************************)
(* Line 30: df = load_data().                                              *)
(***************************************************************************)
LoadData ==
    /\ pc = "idle"
    /\ LET call == cached_call(cache, resource)
       IN  /\ cache' = cache_after(cache, call)
           /\ did_read' = ~call.hit
           /\ notice' = call.out.notice
           /\ df' = call.out.table
           /\ pc' = IF call.out.stop THEN "halted" ELSE "loaded"
    /\ done' = done \cup {"load"}
    /\ UNCHANGED <<resource, failed_before, widgets, df_filtered, outputs>>

(***************************************************************************)
(* Line 56: the z-axis selectbox.                                          *)
(***************************************************************************)
SelectZAxis ==
    /\ pc = "loaded"
    /\ \E z \in z_axis_options : z_axis_col' = z
    /\ pc' = "configured"
    /\ done' = done \cup {"select_z"}
    /\ UNCHANGED <<process, df, did_read, notice, min_edu, max_edu,
                   selected_education, selected_income_types, df_filtered, outputs>>

(***************************************************************************)
(* Lines 62-70: copy, slider, range filter.  An exception here is not      *)
(* caught: the pass ends with it, df_filtered still the copy of line 62.   *)
(* If it is raised before st.slider returns, min_edu and max_edu are never *)
(* bound; if line 70 raises, they hold what the slider returned.           *)
(***************************************************************************)
FilterRange ==
    /\ pc = "configured"
    /\ done' = done \cup {"range"}
    /\ \/ /\ IF slider_args_raise(df) THEN TRUE
             ELSE slider_may_raise(slider_min(df), slider_max(df))
          /\ pc' = "crashed"
          /\ df_filtered' = df
          /\ UNCHANGED <<min_edu, max_edu>>
       \/ /\ ~slider_args_raise(df)
          /\ \E v \in slider_ranges(slider_min(df), slider_max(df)) :
                /\ min_edu' = v[1]
                /\ max_edu' = v[2]
                /\ IF compare_raises(df)
                   THEN /\ pc' = "crashed"
                        /\ df_filtered' = df
                   ELSE /\ pc' = "ranged"
                        /\ df_filtered' = range_filter(df, v[1], v[2])
    /\ UNCHANGED <<process, df, did_read, notice, z_axis_col,
                   selected_education, selected_income_types, outputs>>

(***************************************************************************)
(* Lines 74-80: education multiselect and filter.  pd.NA among the options *)
(* is matched by isin().  The widget itself compares options with ==, and  *)
(* the truth value of pd.NA == 'HS-grad' is a TypeError: whether           *)
(* st.multiselect gets that far depends on the Streamlit release, so with  *)
(* pd.NA next to another option the call may return or raise.              *)
(***************************************************************************)
multiselect_may_raise(options) == NA \in options /\ options # {NA}

FilterEducation ==
    /\ pc = "ranged"
    /\ done' = done \cup {"education"}
    /\ \/ /\ \E sel \in SUBSET unique(df, "education") :
                /\ selected_education' = sel
                /\ df_filtered' = isin_filter(df_filtered, "education", sel)
          /\ pc' = "education_filtered"
       \/ /\ multiselect_may_raise(unique(df, "education"))
          /\ pc' = "crashed"
          /\ UNCHANGED <<selected_education, df_filtered>>
    /\ UNCHANGED <<process, df, did_read, notice, z_axis_col, min_edu, max_edu,
                   selected_income_types, outputs>>

\* FilterIncome filtering df itself instead of building a new view.
FilterIncomeInPlace ==
    /\ pc = "education_filtered"
    /\ \E sel \in SUBSET unique(df, "income") :
          /\ selected_income_types' = sel
          /\ df_filtered' = isin_filter(df_filtered, "income", sel)
          /\ df' = isin_filter(df_filtered, "income", sel)
    /\ pc' = "filtered"
    /\ done' = done \cup {"income"}
    /\ UNCHANGED <<process, did_read, notice, z_axis_col, min_edu, max_edu,
                   selected_education, outputs>>

(***************************************************************************)
(* Lines 83-88: income multiselect and filter.                             *)
(***************************************************************************)
FilterIncome ==
    /\ pc = "education_filtered"
    /\ \E sel \in SUBSET unique(df, "income") :
          /\ selected_income_types' = sel
          /\ df_filtered' = isin_filter(df_filtered, "income", sel)
    /\ pc' = "filtered"
    /\ done' = done \cup {"income"}
    /\ UNCHANGED <<process, df, did_read, notice, z_axis_col, min_edu, max_edu,
                   selected_education, outputs>>

(***************************************************************************)
(* Lines 95-112: the chart of a non-empty view.                            *)
(***************************************************************************)
RenderChart ==
    /\ pc = "filtered"
    /\ df_filtered # <<>>
    /\ chart' = [shown |-> TRUE, data |-> df_filtered, z |-> z_axis_col]
    /\ pc' = "charted"
    /\ done' = done \cup {"chart"}
    /\ UNCHANGED <<process, df, did_read, notice, widgets, df_filtered,
                   warning, overview>>

(***************************************************************************)
(* Lines 113-114: the warning of an empty view.                            *)
(***************************************************************************)
ShowWarning ==
    /\ pc = "filtered"
    /\ df_filtered = <<>>
    /\ warning' = TRUE
    /\ pc' = "charted"
    /\ done' = done \cup {"warning"}
    /\ UNCHANGED <<process, df, did_read, notice, widgets, df_filtered,
                   chart, overview>>

(***************************************************************************)
(* Lines 116-134: preview, summary and the closing text.                   *)
(***************************************************************************)
DataOverview ==
    /\ pc = "charted"
    /\ overview' = [shown |-> TRUE, head |-> head(df_filtered), count |-> Len(df_filtered)]
    /\ pc' = "done"
    /\ done' = done \cup {"overview"}
    /\ UNCHANGED <<process, df, did_read, notice, widgets, df_filtered,
                   chart, warning>>

(***************************************************************************)
(* A widget change or a page reload reruns the script: the pass-local      *)
(* state is dropped, the cache entry stays.                                *)
(***************************************************************************)
Rerun ==
    /\ pc \in {"halted", "crashed", "done"}
    /\ failed_before' = (failed_before \/ pc = "halted")
    /\ pc' = "idle"
    /\ df' = <<>>
    /\ did_read' = FALSE
    /\ notice' = "none"
    /\ z_axis_col' = "none"
    /\ min_edu' = 0
    /\ max_edu' = 0
    /\ selected_education' = {}
    /\ selected_income_types' = {}
    /\ df_filtered' = <<>>
    /\ chart' = NoChart
    /\ warning' = FALSE
    /\ overview' = NoOverview
    /\ done' = {}
    /\ UNCHANGED <<resource, cache>>

(***************************************************************************)
(* The environment edits adult.csv between two passes.                     *)
(***************************************************************************)
ChangeResource ==
    /\ pc = "idle"
    /\ \E r \in Revisions \ {resource} : resource' = r
    /\ UNCHANGED <<cache, pc, df, did_read, failed_before, notice, widgets,
                   df_filtered, outputs, done>>

Next ==
    \/ LoadData
    \/ SelectZAxis
    \/ FilterRange
    \/ FilterEducation
    \/ FilterIncome
    \/ RenderChart
    \/ ShowWarning
    \/ DataOverview
    \/ Rerun
    \/ ChangeResource

Spec == Init /\ [][Next]_vars


(***************************************************************************)
(* Vocabulary of the properties.                                           *)
(***************************************************************************)
\* The pass has a table: load_data() returned.
HasTable == pc \notin {"idle", "halted"}

\* The three filters have run.
Filtered == pc \in {"filtered", "charted", "done"}

\* t is core with whitespace, and nothing else, before and after it.
IsPadded(t, core) ==
    \E i \in 1..(Len(t) + 1) : \E j \in 0..Len(t) :
        /\ SubSeq(t, i, j) = core
        /\ \A m \in 1..(i - 1) : t[m] \in Whitespace
        /\ \A m \in (j + 1)..Len(t) : t[m] \in Whitespace

\* A record meets the range chosen in this pass.
MeetsRange(r) ==
    /\ r.education_num.k \in {"num", "bool"}
    /\ min_edu * r.education_num.d <= r.education_num.n
    /\ r.education_num.n <= max_edu * r.education_num.d

\* A record meets the range and the education set chosen in this pass.
MeetsRangeAndEducation(r) == MeetsRange(r) /\ r.education \in selected_education

\* A record meets the three constraints chosen in this pass.
Survives(r) ==
    /\ r.education_num.k \in {"num", "bool"}
    /\ min_edu * r.education_num.d <= r.education_num.n
    /\ r.education_num.n <= max_edu * r.education_num.d
    /\ r.education \in selected_education
    /\ r.income \in selected_income_types

\* The widgets were left at their defaults.
DefaultConstraints ==
    /\ min_edu = slider_min(df)
    /\ max_edu = slider_max(df)
    /\ selected_education = unique(df, "education")
    /\ selected_income_types = unique(df, "income")

\* The load of this pass read the resource and the load failed.
LoadFailedNow == did_read /\ ~load_data(resource).ok

\* Nothing after line 30 has been executed or shown in this pass.
NothingRendered ==
    /\ done = {"load"}
    /\ df = <<>>
    /\ df_filtered = <<>>
    /\ chart = NoChart
    /\ warning = FALSE
    /\ overview = NoOverview

\* Line i of the resource has an income field that, trimmed, is neither
\* bracket label (the sentinel and the empty field included).
OddIncome(i) == strip(resource.rows[i].income) \notin {GT50K, LE50K}

(***************************************************************************)
(* C1.  In the table of a successful load_data(), income_numeric is 1      *)
(* exactly for the records whose income label is '>50K' with nothing but   *)
(* whitespace around it, and 0 for every other record.                     *)
(***************************************************************************)
C1_IncomeNumeric ==
    HasTable =>
        \A i \in 1..Len(df) :
            /\ df[i].income.k = "str"
            /\ df[i].income_numeric \in {Num(0), Num(1)}
            /\ df[i].income_numeric = Num(1) <=> IsPadded(df[i].income.s, GT50K)

C1_Witness ==
    /\ pc = "loaded"
    /\ \E i \in 1..Len(df) :
          /\ df[i].income.s = <<" ">> \o GT50K \o <<"U+00A0">>
          /\ df[i].income_numeric = Num(1)
    /\ \E i \in 1..Len(df) :
          df[i].income.s = GT50K \o <<".">> /\ df[i].income_numeric = Num(0)

(***************************************************************************)
(* C2.  In every pass that has reached line 62, whatever the table, and    *)
(* whether or not a later line raises, df_filtered is exactly the records  *)
(* of df that meet the constraints of the filters that have completed, in  *)
(* the order of df and with their values unchanged: all of df while the    *)
(* range filter has not completed (the copy of line 62), the records in    *)
(* the range after line 70, those also in the education set after line 80, *)
(* and after line 88 exactly the records that meet all three constraints.  *)
(***************************************************************************)
C2_FilterExact ==
    "range" \in done =>
        /\ (pc = "crashed" /\ "education" \notin done) => df_filtered = df
        /\ (pc = "ranged" \/ (pc = "crashed" /\ "education" \in done)) =>
              df_filtered = SelectSeq(df, MeetsRange)
        /\ pc = "education_filtered" =>
              df_filtered = SelectSeq(df, MeetsRangeAndEducation)
        /\ pc \in {"filtered", "charted", "done"} =>
              df_filtered = SelectSeq(df, Survives)
        /\ pc \in {"crashed", "ranged", "education_filtered",
                   "filtered", "charted", "done"}

C2_Witness ==
    /\ pc = "filtered"
    /\ Len(df) = 2
    /\ Len(df_filtered) = 1
    /\ min_edu = max_edu
    /\ df[1].education_num = Num(max_edu)
    /\ ~Survives(df[2])

(***************************************************************************)
(* C3 as claimed.  With the widgets at their defaults every record of the  *)
(* loaded table survives the filters.                                      *)
(***************************************************************************)
C3_DefaultsKeepAll == (Filtered /\ DefaultConstraints) => df_filtered = df

(***************************************************************************)
(* C4.  A pass whose load_data() failed shows the error notice and halts:  *)
(* no filter has run, no chart, warning or overview is shown.              *)
(***************************************************************************)
C4_FailedLoadHalts ==
    LoadFailedNow =>
        /\ pc = "halted"
        /\ notice \in {"file_not_found", "load_error"}
        /\ notice = "file_not_found" <=> resource.kind = "absent"
        /\ NothingRendered

C4_Witness ==
    /\ pc = "halted"
    /\ notice = "load_error"
    /\ resource.kind = "csv"
    /\ Len(resource.rows) = 2

(***************************************************************************)
(* C5 as claimed.  A pass whose load succeeded never fails in the filter   *)
(* step; it ends with the chart of a non-empty view or with the warning of *)
(* an empty one.                                                           *)
(***************************************************************************)
C5_FilterNeverFails ==
    HasTable =>
        /\ pc # "crashed"
        /\ pc \in {"charted", "done"} =>
              /\ df_filtered # <<>> => (chart.shown /\ ~warning)
              /\ df_filtered = <<>> => (~chart.shown /\ warning)

(***************************************************************************)
(* C6.  Once load_data() has succeeded, the cached table never changes and *)
(* every later load_data() returns it without reading adult.csv.           *)
(***************************************************************************)
C6_LoadIdempotent ==
    [][cache.set =>
          /\ cache' = cache
          /\ (pc = "idle" /\ pc' # "idle") =>
                (pc' = "loaded" /\ df' = cache.table /\ ~did_read')]_vars

C6_Witness ==
    /\ pc = "loaded"
    /\ ~did_read
    /\ Len(df) = 2
    /\ resource.kind = "csv"
    /\ load_data(resource) # Loaded(df)

(***************************************************************************)
(* C7.  The table of a successful load holds '?' in no cell: a field that  *)
(* was '?' in the resource is pd.NA, every other field is as read_csv read *)
(* it.                                                                     *)
(***************************************************************************)
C7_NoSentinel ==
    (did_read /\ HasTable) =>
        /\ Len(df) = Len(resource.rows)
        /\ \A i \in 1..Len(df) :
              /\ \A c \in DOMAIN df[i] : df[i][c] # Str(SENTINEL)
              /\ \A c \in Columns :
                    IF resource.rows[i][c] = SENTINEL
                    THEN df[i][c] = NA
                    ELSE df[i][c] = read_csv(resource.rows)[i][c]

C7_Witness ==
    /\ pc = "loaded"
    /\ did_read
    /\ \E i \in 1..Len(df) :
          /\ resource.rows[i].education = SENTINEL
          /\ df[i].education = NA
          /\ df[i].sex = Str(FEMALE)
    /\ \E i \in 1..Len(df) : df[i].sex = Str(<<" ">> \o SENTINEL)

(***************************************************************************)
(* C8.  No step of a pass after the load changes df, and no step at all    *)
(* changes the table the cache holds.                                      *)
(***************************************************************************)
C8_TableImmutable ==
    [][/\ (pc # "idle" /\ pc' # "idle") => df' = df
       /\ cache.set => cache'.table = cache.table]_vars

C8_Witness ==
    /\ pc = "done"
    /\ Len(df) = 2
    /\ Len(df_filtered) = 1
    /\ chart.shown
    /\ cache.table = df

(***************************************************************************)
(* C9 as claimed.  After a pass in which load_data() failed, no later pass *)
(* reads the resource or gets past the halt.                               *)
(***************************************************************************)
C9_FailureIsFinal == failed_before => (~did_read /\ pc \in {"idle", "halted"})

(***************************************************************************)
(* C10 as claimed.  A resource with a record whose income is '?', empty or *)
(* any other value that is not a bracket label still loads, and that       *)
(* record gets income_numeric 0.                                           *)
(***************************************************************************)
C10_OddIncomeIsZero ==
    (did_read /\ resource.kind = "csv") =>
        /\ (\E i \in 1..Len(resource.rows) : OddIncome(i)) => pc # "halted"
        /\ HasTable =>
              \A i \in 1..Len(df) : OddIncome(i) => df[i].income_numeric = Num(0)

=============================================================================
